---- MODULE Spec2Model ----
(***************************************************************************)
(* fastify-session: the session plugin (lib/fastifySession.js) and the     *)
(* cookie secrets store (CookieSecretsStore).                              *)
(*                                                                         *)
(* Spec    : the request lifecycle. The preValidation hook (handleSession) *)
(*           resolves request.session, the handler reads/writes it and may *)
(*           call destroySession, the onSend hook (saveSession) persists   *)
(*           it. Store callbacks are separate steps, so requests           *)
(*           interleave at every store call.                               *)
(* KeySpec : the cookie secrets store under constructor, addSigning,       *)
(*           addUnsigning and remove.                                      *)
(***************************************************************************)
EXTENDS Integers, Sequences, FiniteSets, TLC

\* Number of requests in flight.
NumRequests == 2
\* Number of session ids the store may hold before the first request.
MaxStored == 1
\* Longest cookie secrets store explored.
MaxKeys == 4

\* Object.keys(session).length of an untouched Session (isSessionModified).
BookkeepingKeys == 4
\* Minimum length of a signing secret (addSigning).
MinSecretLength == 32

Requests == 1..NumRequests

VARIABLES
  options,       \* plugin options after ensureDefaults: cookie.path, cookie.secure, saveUninitialized
  sessionStore,  \* options.store: the external store's content, session id -> session
  nextId,        \* the next random id uid() hands out
  decorated,     \* keys of the single {} installed by decorateRequest('session', {})
  request,       \* per request: what the hooks have read of url, cookie,
                 \* connection.encrypted and x-forwarded-proto
  session,       \* per request: request.session
  pc,            \* per request: where the request's pipeline stands
  replyCookie,   \* per request: the cookie reply.setCookie installed
  trace,         \* per request: store calls, callbacks, completions, in order
  store,         \* CookieSecretsStore: this.store
  ks             \* CookieSecretsStore: how it was constructed and the last call's outcome

vars == <<options, sessionStore, nextId, decorated, request, session, pc,
          replyCookie, trace, store, ks>>
pluginVars == <<options, sessionStore, nextId, decorated, request, session, pc,
                replyCookie, trace>>
keyVars == <<store, ks>>

(***************************************************************************)
(* Values                                                                  *)
(***************************************************************************)
\* A session id is <<n, signature>>; the raw id has the empty signature.
Raw(n) == <<n, "">>
NoId == <<0, "">>
\* cookie-signature's `false`.
UnsignFailed == <<0, "false">>
\* The plugin's configured secret and a secret that is not configured.
Secret == "secret-A"
OtherSecret == "secret-old"

\* cookie-signature.sign: the value followed by its keyed signature.
sign(val, secret) == <<val[1], secret>>
\* cookie-signature.unsign: strip the signature, sign again, compare.
unsign(val, secret) ==
  LET str == <<val[1], "">>
  IN IF sign(str, secret) = val THEN str ELSE UnsignFailed

DataKeys == {"user"}
\* The own keys a Session carries right after construction.
InitialShape == {"expires", "cookie", "sessionId", "encryptedSessionId"}

DecoratedSession == [kind |-> "decorated", sessionId |-> NoId,
                     encryptedSessionId |-> NoId, data |-> {}]
NullSession == [kind |-> "null", sessionId |-> NoId,
                encryptedSessionId |-> NoId, data |-> {}]

\* new Session(cookieOpts, secret, prevSession): the previous session's fields
\* are taken over; without a session id a new one is generated and signed.
Session(secret, prev, n) ==
  IF prev.kind = "session" /\ prev.sessionId # NoId
  THEN [kind |-> "session", sessionId |-> prev.sessionId,
        encryptedSessionId |-> prev.encryptedSessionId, data |-> prev.data]
  ELSE [kind |-> "session", sessionId |-> Raw(n),
        encryptedSessionId |-> sign(Raw(n), secret), data |-> {}]

\* Object.keys(session)
ObjectKeys(s) ==
  IF s.kind = "session" THEN InitialShape \cup s.data
  ELSE IF s.kind = "decorated" THEN decorated
  ELSE {}

Urls == {<<"/", "a">>, <<"/", "b">>}
Paths == {<<"/", "a">>}
SecureValues == {"true", "false", "auto"}
Protos == {"none", "http", "https"}
Errors == {"ok", "ENOENT", "EIO"}
Cookies == {NoId} \cup {<<n, Secret>> : n \in 1..(MaxStored + 1)} \cup {<<1, OtherSecret>>}

\* A request of which no hook has read anything yet.
Unread == [url |-> <<>>, cookie |-> NoId, encrypted |-> "unread", proto |-> "unread"]

Ev(e, id, err) == [e |-> e, id |-> id, err |-> err]

\* url.indexOf(path) === 0
StartsWith_Always(url, path) == TRUE
StartsWith(url, path) ==
  /\ Len(path) <= Len(url)
  /\ \A i \in 1..Len(path) : url[i] = path[i]

(***************************************************************************)
(* Construction                                                            *)
(***************************************************************************)
StoredSession(n, d) ==
  [kind |-> "session", sessionId |-> Raw(n),
   encryptedSessionId |-> sign(Raw(n), Secret), data |-> d]

PluginInit ==
  /\ options \in [path : Paths, secure : SecureValues, saveUninitialized : BOOLEAN]
  /\ \E present \in SUBSET (1..MaxStored) :
       sessionStore \in
         {f \in [{Raw(n) : n \in present} ->
                   {StoredSession(m, d) : m \in present, d \in SUBSET DataKeys}] :
            \A k \in DOMAIN f : f[k].sessionId = k}
  /\ nextId = MaxStored + 1
  /\ decorated = {}
  /\ request = [r \in Requests |-> Unread]
  /\ session = [r \in Requests |-> DecoratedSession]
  /\ pc = [r \in Requests |-> "idle"]
  /\ replyCookie = [r \in Requests |-> NoId]
  /\ trace = [r \in Requests |-> <<>>]

\* Secrets handed to the cookie secrets store: strings of 32 characters or
\* more, a shorter string, and a value that is not a string.
KeyValues ==
  { [type |-> "string", text |-> "A", length |-> 32],
    [type |-> "string", text |-> "B", length |-> 40],
    [type |-> "string", text |-> "w", length |-> 31],
    [type |-> "number", text |-> "7", length |-> 0] }
NoKey == [type |-> "undefined", text |-> "", length |-> 0]

\* Before `new CookieSecretsStore(...)`.
KeyInit ==
  /\ store = <<>>
  /\ ks = [state |-> "none", op |-> "none", key |-> NoKey, threw |-> FALSE, before |-> <<>>]

Init == PluginInit /\ KeyInit

(***************************************************************************)
(* preValidation hook                                                      *)
(***************************************************************************)
Log(r, evs) == trace' = [trace EXCEPT ![r] = @ \o evs]

\* newSession: attach a brand-new session and complete.
newSession(r, evs) ==
  /\ session' = [session EXCEPT ![r] = Session(Secret, NullSession, nextId)]
  /\ nextId' = nextId + 1
  /\ Log(r, evs \o <<Ev("newSession", Raw(nextId), "ok"), Ev("resolveDone", NoId, "")>>)
  /\ pc' = [pc EXCEPT ![r] = "handler"]

\* Requests are numbered in their order of arrival. The request's url and
\* cookie are inputs; the cookie is recorded when the hook reads it, so a
\* request outside the cookie path is drawn with one cookie value only.
handleSession(r, url, cookie) ==
  /\ pc[r] = "idle"
  /\ \A q \in Requests : q < r => pc[q] # "idle"
  /\ UNCHANGED <<options, sessionStore, decorated, replyCookie, keyVars>>
  /\ IF ~StartsWith(url, IF options.path = <<>> THEN <<"/">> ELSE options.path)
     THEN /\ cookie = NoId
          /\ request' = [request EXCEPT ![r].url = url]
          /\ Log(r, <<Ev("resolveDone", NoId, "")>>)
          /\ pc' = [pc EXCEPT ![r] = "handler"]
          /\ UNCHANGED <<session, nextId>>
     ELSE
     /\ request' = [request EXCEPT ![r].url = url, ![r].cookie = cookie]
     /\ IF cookie = NoId
        THEN newSession(r, <<>>)
        ELSE IF unsign(cookie, Secret) = UnsignFailed
        THEN newSession(r, <<>>)
        ELSE
          /\ Log(r, <<Ev("store.get", unsign(cookie, Secret), "")>>)
          /\ pc' = [pc EXCEPT ![r] = "get"]
          /\ UNCHANGED <<session, nextId>>

\* store.destroy / store.set taking effect in the external store.
StoreDestroy(id) == [k \in DOMAIN sessionStore \ {id} |-> sessionStore[k]]
StoreSet(id, s) == [k \in DOMAIN sessionStore \cup {id} |-> IF k = id THEN s ELSE sessionStore[k]]

\* `err.code === 'ENOENT'` in getCallback.
isNotFound_Never(err) == FALSE
isNotFound_Any(err) == err # "ok"
isNotFound(err) == err = "ENOENT"

\* getCallback without the `return` that ends the expired branch.
getCallback_NoReturn(r, err, expired) ==
  LET id == unsign(request[r].cookie, Secret)
      sessionId == request[r].cookie
  IN
  /\ pc[r] = "get"
  /\ UNCHANGED <<options, sessionStore, decorated, request, replyCookie, keyVars>>
  /\ IF err # "ok"
     THEN IF isNotFound(err)
          THEN newSession(r, <<Ev("getCallback", id, err)>>)
          ELSE /\ Log(r, <<Ev("getCallback", id, err), Ev("resolveDone", NoId, err)>>)
               /\ pc' = [pc EXCEPT ![r] = "failed"]
               /\ UNCHANGED <<session, nextId>>
     ELSE IF id \notin DOMAIN sessionStore
     THEN newSession(r, <<Ev("getCallback", id, "absent")>>)
     ELSE IF expired
     THEN /\ session' = [session EXCEPT ![r] = Session(Secret, sessionStore[id], nextId)]
          /\ Log(r, <<Ev("getCallback", id, "expired"), Ev("resolveDone", NoId, ""),
                      Ev("store.destroy", sessionId, "resolve")>>)
          /\ pc' = [pc EXCEPT ![r] = "destroy"]
          /\ UNCHANGED nextId
     ELSE /\ session' = [session EXCEPT ![r] = Session(Secret, sessionStore[id], nextId)]
          /\ Log(r, <<Ev("getCallback", id, "live"), Ev("resolveDone", NoId, "")>>)
          /\ pc' = [pc EXCEPT ![r] = "handler"]
          /\ UNCHANGED nextId

\* getCallback: the store answers the get of handleSession.
getCallback(r, err, expired) ==
  LET id == unsign(request[r].cookie, Secret)
      sessionId == request[r].cookie
  IN
  /\ pc[r] = "get"
  /\ UNCHANGED <<options, sessionStore, decorated, request, replyCookie, keyVars>>
  /\ IF err # "ok"
     THEN IF isNotFound(err)
          THEN newSession(r, <<Ev("getCallback", id, err)>>)
          ELSE /\ Log(r, <<Ev("getCallback", id, err), Ev("resolveDone", NoId, err)>>)
               /\ pc' = [pc EXCEPT ![r] = "failed"]
               /\ UNCHANGED <<session, nextId>>
     ELSE IF id \notin DOMAIN sessionStore
     THEN newSession(r, <<Ev("getCallback", id, "absent")>>)
     ELSE IF expired
     THEN /\ Log(r, <<Ev("getCallback", id, "expired"), Ev("store.destroy", sessionId, "resolve")>>)
          /\ pc' = [pc EXCEPT ![r] = "destroy"]
          /\ UNCHANGED <<session, nextId>>
     ELSE /\ session' = [session EXCEPT ![r] = Session(Secret, sessionStore[id], nextId)]
          /\ Log(r, <<Ev("getCallback", id, "live"), Ev("resolveDone", NoId, "")>>)
          /\ pc' = [pc EXCEPT ![r] = "handler"]
          /\ UNCHANGED nextId

\* The id the pending store call of request r was made with.
PendingId(r) == trace[r][Len(trace[r])].id

\* `if (err)` in destroyCallback.
destroyFailed_Never(err) == FALSE
destroyFailed_ExceptNotFound(err) == err \notin {"ok", "ENOENT"}
destroyFailed(err) == err # "ok"

\* getDestroyCallback: the store answers the destroy of an expired session.
getDestroyCallback(r, err) ==
  /\ pc[r] = "destroy"
  /\ sessionStore' = IF err = "ok" THEN StoreDestroy(PendingId(r)) ELSE sessionStore
  /\ UNCHANGED <<options, decorated, request, replyCookie, keyVars>>
  /\ IF destroyFailed(err)
     THEN /\ Log(r, <<Ev("destroyCallback", PendingId(r), err), Ev("resolveDone", NoId, err)>>)
          /\ pc' = [pc EXCEPT ![r] = "failed"]
          /\ UNCHANGED <<session, nextId>>
     ELSE newSession(r, <<Ev("destroyCallback", PendingId(r), err)>>)

(***************************************************************************)
(* The route handler                                                       *)
(***************************************************************************)
\* request.session[k] = ...; a null session makes the handler throw instead.
handlerWrite(r, k) ==
  /\ pc[r] = "handler"
  /\ session[r].kind # "null"
  /\ k \notin ObjectKeys(session[r])
  /\ IF session[r].kind = "decorated"
     THEN decorated' = decorated \cup {k} /\ UNCHANGED session
     ELSE session' = [session EXCEPT ![r].data = @ \cup {k}] /\ UNCHANGED decorated
  /\ Log(r, <<Ev("write", NoId, k)>>)
  /\ UNCHANGED <<options, sessionStore, nextId, request, pc, replyCookie, keyVars>>

\* The id destroySession hands to store.destroy.
destroyedId_Signed(s) == s.encryptedSessionId
destroyedId(s) == s.sessionId

\* request.destroySession(done); reading null.sessionId throws before the store is called.
destroySession(r) ==
  /\ pc[r] = "handler"
  /\ session[r].kind # "null"
  /\ Log(r, <<Ev("store.destroy", destroyedId(session[r]), "destroySession")>>)
  /\ pc' = [pc EXCEPT ![r] = "destroying"]
  /\ UNCHANGED <<options, sessionStore, nextId, decorated, request, session, replyCookie, keyVars>>

\* request.session once destroySession's destroyCallback has run.
sessionAfterDestroy_KeptOnError(s, err) == IF err = "ok" THEN NullSession ELSE s
sessionAfterDestroy_Kept(s, err) == s
sessionAfterDestroy(s, err) == NullSession

\* destroySession's destroyCallback.
destroySessionCallback(r, err) ==
  /\ pc[r] = "destroying"
  /\ sessionStore' = IF err = "ok" THEN StoreDestroy(PendingId(r)) ELSE sessionStore
  /\ session' = [session EXCEPT ![r] = sessionAfterDestroy(session[r], err)]
  /\ Log(r, <<Ev("destroySessionDone", PendingId(r), err)>>)
  /\ pc' = [pc EXCEPT ![r] = "handler"]
  /\ UNCHANGED <<options, nextId, decorated, request, replyCookie, keyVars>>

(***************************************************************************)
(* onSend hook                                                             *)
(***************************************************************************)
isSessionModified_OffByOne(s) == Cardinality(ObjectKeys(s)) # BookkeepingKeys - 1
isSessionModified(s) == Cardinality(ObjectKeys(s)) # BookkeepingKeys

\* encrypted: request.req.connection.encrypted, proto: the x-forwarded-proto header.
shouldSaveSession_Truthy(s, cookieOpts, saveUninitialized, encrypted, proto) ==
  IF ~saveUninitialized /\ ~isSessionModified(s) THEN FALSE
  ELSE IF cookieOpts.secure = "false" THEN TRUE
  ELSE IF encrypted = "true" THEN TRUE
  ELSE proto = "https"
shouldSaveSession(s, cookieOpts, saveUninitialized, encrypted, proto) ==
  IF ~saveUninitialized /\ ~isSessionModified(s) THEN FALSE
  ELSE IF cookieOpts.secure # "true" THEN TRUE
  ELSE IF encrypted = "true" THEN TRUE
  ELSE proto = "https"

\* What shouldSaveSession reads of the request on its way to the result.
ReadBy(s, cookieOpts, saveUninitialized, encrypted, proto) ==
  IF (~saveUninitialized /\ ~isSessionModified(s)) \/ cookieOpts.secure # "true"
  THEN [encrypted |-> "unread", proto |-> "unread"]
  ELSE IF encrypted = "true" THEN [encrypted |-> encrypted, proto |-> "unread"]
  ELSE [encrypted |-> encrypted, proto |-> proto]

\* The id saveSession hands to store.set.
setId_Signed(s) == s.encryptedSessionId
setId(s) == s.sessionId

\* saveSession: runs when the reply is sent, also for a reply that reports an error.
saveSession(r, encrypted, proto) ==
  LET s == session[r]
      read == IF s.kind = "null" \/ s.sessionId = NoId
              THEN [encrypted |-> "unread", proto |-> "unread"]
              ELSE ReadBy(s, options, options.saveUninitialized, encrypted, proto)
  IN
  /\ pc[r] \in {"handler", "failed"}
  \* an input the hook does not read is drawn once, not once per value
  /\ read.encrypted = "unread" => encrypted = "false"
  /\ read.proto = "unread" => proto = "none"
  /\ request' = [request EXCEPT ![r].encrypted = read.encrypted, ![r].proto = read.proto]
  /\ UNCHANGED <<options, sessionStore, nextId, decorated, session, replyCookie, keyVars>>
  /\ IF \/ s.kind = "null"
        \/ s.sessionId = NoId
        \/ ~shouldSaveSession(s, options, options.saveUninitialized, encrypted, proto)
     THEN /\ Log(r, <<Ev("sendDone", NoId, "")>>)
          /\ pc' = [pc EXCEPT ![r] = "finished"]
     ELSE /\ Log(r, <<Ev("store.set", setId(s), "saveSession")>>)
          /\ pc' = [pc EXCEPT ![r] = "set"]

\* `if (err)` in setCallback.
setFailed_Never(err) == FALSE
setFailed(err) == err # "ok"

\* setCallback: the store answers the set of saveSession.
setCallback(r, err) ==
  /\ pc[r] = "set"
  /\ pc' = [pc EXCEPT ![r] = "finished"]
  /\ UNCHANGED <<options, nextId, decorated, request, session, keyVars>>
  /\ IF setFailed(err)
     THEN /\ Log(r, <<Ev("setCallback", PendingId(r), err), Ev("sendDone", NoId, err)>>)
          /\ UNCHANGED <<sessionStore, replyCookie>>
     ELSE /\ sessionStore' = StoreSet(PendingId(r), session[r])
          /\ replyCookie' = [replyCookie EXCEPT ![r] = session[r].encryptedSessionId]
          /\ Log(r, <<Ev("setCallback", PendingId(r), err),
                      Ev("setCookie", session[r].encryptedSessionId, "ok"),
                      Ev("sendDone", NoId, "")>>)

(***************************************************************************)
(* CookieSecretsStore                                                      *)
(***************************************************************************)
\* Array.prototype.indexOf / lastIndexOf: 0-based, -1 when absent.
IndexOf(arr, key) ==
  IF \E i \in 1..Len(arr) : arr[i] = key
  THEN (CHOOSE i \in 1..Len(arr) : arr[i] = key /\ \A j \in 1..(i - 1) : arr[j] # key) - 1
  ELSE -1
LastIndexOf(arr, key) ==
  IF \E i \in 1..Len(arr) : arr[i] = key
  THEN (CHOOSE i \in 1..Len(arr) : arr[i] = key /\ \A j \in (i + 1)..Len(arr) : arr[j] # key) - 1
  ELSE -1
\* arr.splice(start, 0, key) and arr.splice(index, 1), start clamped to the length.
SpliceInsert_Push(arr, start, key) == arr \o <<key>>
SpliceInsert(arr, start, key) ==
  LET at == IF start > Len(arr) THEN Len(arr) ELSE start
  IN SubSeq(arr, 1, at) \o <<key>> \o SubSeq(arr, at + 1, Len(arr))
SpliceRemove(arr, index) == SubSeq(arr, 1, index) \o SubSeq(arr, index + 2, Len(arr))

\* The guard of addSigning: the key is rejected.
addSigningThrows(key) == key.type # "string" \/ key.length < MinSecretLength
\* The guard of remove: the key is refused as the signing one.
removeThrows_Never(arr, key) == FALSE
removeThrows(arr, key) == LastIndexOf(arr, key) = 0

contains(arr, key) == LastIndexOf(arr, key) # -1
isSigning(arr, key) == IndexOf(arr, key) = 0

\* The array the constructor builds from an array of secrets whose first
\* secret addSigning accepted.
constructed(initSecrets) ==
  LET RECURSIVE build(_, _)
      build(arr, i) == IF i > Len(initSecrets) THEN arr
                       ELSE build(SpliceInsert(arr, 1, initSecrets[i]), i + 1)
  IN build(<<initSecrets[1]>>, 2)

Called(op, key, threw) ==
  ks' = [state |-> "store", op |-> op, key |-> key, threw |-> threw, before |-> store]

\* new CookieSecretsStore(initSecrets): initSecrets is an array (isArray) or
\* a single value, carried as the one element of initSecrets.
constructor(isArray, initSecrets) ==
  /\ ks.state = "none"
  /\ isArray \/ Len(initSecrets) = 1
  /\ UNCHANGED pluginVars
  /\ IF isArray /\ Len(initSecrets) = 0
     THEN \* `return new Error(...)`: the caller holds an Error, not a store
          /\ store' = <<>>
          /\ ks' = [ks EXCEPT !.state = "error", !.op = "constructor"]
     ELSE IF addSigningThrows(initSecrets[1])
     THEN /\ store' = <<>>
          /\ ks' = [ks EXCEPT !.state = "threw", !.op = "constructor",
                              !.key = initSecrets[1], !.threw = TRUE]
     ELSE /\ store' = constructed(initSecrets)
          /\ ks' = [ks EXCEPT !.state = "store", !.op = "constructor", !.key = initSecrets[1]]

addSigning(key) ==
  /\ ks.state = "store"
  /\ Len(store) < MaxKeys
  /\ UNCHANGED pluginVars
  /\ Called("addSigning", key, addSigningThrows(key))
  /\ store' = IF addSigningThrows(key) THEN store ELSE SpliceInsert(store, 0, key)

addUnsigning(key) ==
  /\ ks.state = "store"
  /\ Len(store) < MaxKeys
  /\ UNCHANGED pluginVars
  /\ Called("addUnsigning", key, FALSE)
  /\ store' = SpliceInsert(store, 1, key)

remove(key) ==
  /\ ks.state = "store"
  /\ UNCHANGED pluginVars
  /\ Called("remove", key, removeThrows(store, key))
  /\ store' = IF removeThrows(store, key) THEN store
              ELSE IF LastIndexOf(store, key) > 0
              THEN SpliceRemove(store, LastIndexOf(store, key))
              ELSE store

InitSecrets == {<<>>} \cup {<<a>> : a \in KeyValues} \cup {<<a, b>> : a, b \in KeyValues}

KeyNext ==
  \/ \E isArray \in BOOLEAN, initSecrets \in InitSecrets : constructor(isArray, initSecrets)
  \/ \E key \in KeyValues : addSigning(key)
  \/ \E key \in KeyValues : addUnsigning(key)
  \/ \E key \in KeyValues : remove(key)

\* The key store on its own, beside one fixed plugin configuration.
KeySpecInit ==
  /\ Init
  /\ options = [path |-> <<"/", "a">>, secure |-> "true", saveUninitialized |-> TRUE]
  /\ sessionStore = <<>>

KeySpec == KeySpecInit /\ [][KeyNext]_vars

Next ==
  \/ \E r \in Requests, url \in Urls, cookie \in Cookies : handleSession(r, url, cookie)
  \/ \E r \in Requests, err \in Errors, expired \in BOOLEAN : getCallback(r, err, expired)
  \/ \E r \in Requests, err \in Errors : getDestroyCallback(r, err)
  \/ \E r \in Requests, k \in DataKeys : handlerWrite(r, k)
  \/ \E r \in Requests : destroySession(r)
  \/ \E r \in Requests, err \in Errors : destroySessionCallback(r, err)
  \/ \E r \in Requests, encrypted \in {"true", "false"}, proto \in Protos :
        saveSession(r, encrypted, proto)
  \/ \E r \in Requests, err \in Errors : setCallback(r, err)

Spec == Init /\ [][Next]_vars

(***************************************************************************)
(* Secret rotation: the application keeps its secrets in a cookie secrets   *)
(* store, registers the plugin with the signing secret, and later rotates   *)
(* while requests are served.                                               *)
(***************************************************************************)
NewSecret == "secret-new"
\* A secret of the plugin as a key of the cookie secrets store.
SecretKey(text) == [type |-> "string", text |-> text, length |-> MinSecretLength]

RotateInit ==
  /\ PluginInit
  /\ options = [path |-> <<"/", "a">>, secure |-> "false", saveUninitialized |-> TRUE]
  /\ store = <<SecretKey(Secret)>>
  /\ ks = [state |-> "store", op |-> "constructor", key |-> SecretKey(Secret),
           threw |-> FALSE, before |-> <<>>]

\* The application rotates between requests, so that a request is served
\* entirely before or entirely after addSigning(newSecret).
Quiescent == \A r \in Requests : pc[r] \in {"idle", "finished"}

RotateNext ==
  \/ Next
  \/ Quiescent /\ ~contains(store, SecretKey(NewSecret)) /\ addSigning(SecretKey(NewSecret))
  \/ ~isSigning(store, SecretKey(Secret)) /\ contains(store, SecretKey(Secret))
       /\ remove(SecretKey(Secret))

RotateSpec == RotateInit /\ [][RotateNext]_vars

(***************************************************************************)
(* Reading a request's trace                                               *)
(***************************************************************************)
At(r, e) == {i \in 1..Len(trace[r]) : trace[r][i].e = e}
AtErr(r, e, err) == {i \in At(r, e) : trace[r][i].err = err}
Has(r, e) == At(r, e) # {}
StoreCalls(r) == At(r, "store.get") \cup At(r, "store.set") \cup At(r, "store.destroy")
\* The request's url falls under the cookie path and handleSession has run.
Resolved(r) == pc[r] # "idle" /\ StartsWith(request[r].url, options.path)
\* The handler of request r wrote to request.session.
Wrote(r) == Has(r, "write")
\* The raw id of the session the resolve phase attached to request r.
AttachedId(r) ==
  IF Has(r, "newSession") THEN trace[r][CHOOSE i \in At(r, "newSession") : TRUE].id
  ELSE IF AtErr(r, "getCallback", "live") # {}
  THEN trace[r][CHOOSE i \in AtErr(r, "getCallback", "live") : TRUE].id
  ELSE NoId
\* The new session attached by event i is brand-new: an id no stored session
\* and no other request has, signed with the secret, and no payload key but
\* those the handler wrote since.
BrandNew(r, i) ==
  /\ trace[r][i].e = "newSession"
  /\ trace[r][i].id[1] > MaxStored
  /\ \A q \in Requests \ {r} : \A j \in At(q, "newSession") : trace[q][j].id # trace[r][i].id
  /\ session[r].kind \in {"session", "null"}
  /\ session[r].kind = "session" =>
       /\ session[r].sessionId = trace[r][i].id
       /\ session[r].encryptedSessionId = sign(trace[r][i].id, Secret)
       /\ session[r].data # {} => Wrote(r)
  /\ session[r].kind = "null" => Has(r, "destroySessionDone")

(***************************************************************************)
(* C1: a session that store.get returned expired is never attached to the  *)
(* request; the request sees no session until store.destroy has reported    *)
(* success, and then only a brand-new one.                                  *)
(***************************************************************************)
C1_ExpiredNeverAttached ==
  \A r \in Requests : \A i \in AtErr(r, "getCallback", "expired") :
    /\ trace[r][i + 1].e = "store.destroy"
    /\ session[r].kind = "session" => session[r].sessionId # trace[r][i].id
    /\ session[r].kind # "decorated" =>
         /\ Len(trace[r]) >= i + 4
         /\ trace[r][i + 2].e = "destroyCallback" /\ trace[r][i + 2].err = "ok"
         /\ BrandNew(r, i + 3)
    /\ session[r].kind = "decorated" => pc[r] \in {"destroy", "failed", "finished"}

C1_Witness ==
  \E r \in Requests :
    /\ AtErr(r, "getCallback", "expired") # {}
    /\ pc[r] = "handler" /\ session[r].kind = "session"

(***************************************************************************)
(* C2 as stated: with saveUninitialized false and a handler that never      *)
(* writes to request.session, no request has store.set called or a cookie   *)
(* set, whether its session is new or was loaded with a saved payload.      *)
(***************************************************************************)
C2_Original ==
  \A r \in Requests :
    (~options.saveUninitialized /\ ~Wrote(r)) =>
      (~Has(r, "store.set") /\ replyCookie[r] = NoId)

(***************************************************************************)
(* C2 amended: with saveUninitialized false and a handler that never writes *)
(* to request.session, store.set is not called and no cookie is set for a   *)
(* request whose session is new or was loaded without any key beyond the    *)
(* session's own bookkeeping keys.                                          *)
(***************************************************************************)
C2_UnmodifiedNotSaved ==
  \A r \in Requests :
    (/\ ~options.saveUninitialized
     /\ ~Wrote(r)
     /\ session[r].kind = "session" => session[r].data = {}) =>
      (~Has(r, "store.set") /\ replyCookie[r] = NoId)

C2_Witness ==
  \E r, q \in Requests :
    /\ ~options.saveUninitialized
    /\ pc[r] = "finished" /\ pc[q] = "finished"
    /\ ~Wrote(r) /\ ~Wrote(q)
    /\ AtErr(r, "getCallback", "live") # {} /\ session[r].kind = "session" /\ session[r].data = {}
    /\ Has(q, "newSession") /\ session[q].kind = "session"
    /\ options.secure # "true"

(***************************************************************************)
(* C3: when cookie.secure is true and the request is neither on an          *)
(* encrypted connection nor forwarded as https, the persist phase calls     *)
(* store.set for no session and sets no cookie; in every other case a       *)
(* materialized session that passes the saveUninitialized check is handed   *)
(* to store.set.                                                            *)
(***************************************************************************)
C3_SecurePolicy ==
  \A r \in Requests : pc[r] \in {"set", "finished"} =>
    /\ (options.secure = "true" /\ request[r].encrypted # "true" /\ request[r].proto # "https") =>
         (~Has(r, "store.set") /\ replyCookie[r] = NoId)
    /\ (/\ options.secure # "true" \/ request[r].encrypted = "true" \/ request[r].proto = "https"
        /\ session[r].kind = "session"
        /\ options.saveUninitialized \/ isSessionModified(session[r])) =>
         \E i \in At(r, "store.set") : trace[r][i].id = session[r].sessionId

C3_Witness ==
  \E r, q \in Requests :
    /\ options.secure = "true" /\ ~options.saveUninitialized
    /\ pc[r] = "finished" /\ pc[q] = "finished"
    /\ request[r].encrypted = "false" /\ request[r].proto = "http"
    /\ session[r].kind = "session" /\ Wrote(r) /\ ~Has(r, "store.set")
    /\ request[q].encrypted = "false" /\ request[q].proto = "https"
    /\ Has(q, "store.set") /\ replyCookie[q] # NoId

(***************************************************************************)
(* C4: a response cookie exists only once the persist phase has completed,  *)
(* right after store.set for the session's id called back without error;    *)
(* a store.set error is the persist phase's result and leaves no cookie.    *)
(***************************************************************************)
C4_CookieOnlyAfterSet ==
  \A r \in Requests :
    /\ pc[r] # "finished" => (replyCookie[r] = NoId /\ ~Has(r, "setCookie"))
    /\ replyCookie[r] # NoId =>
         \E i \in At(r, "store.set") :
           /\ trace[r][i].id = session[r].sessionId
           /\ trace[r][i + 1] = Ev("setCallback", session[r].sessionId, "ok")
           /\ trace[r][i + 2] = Ev("setCookie", replyCookie[r], "ok")
           /\ replyCookie[r] = session[r].encryptedSessionId
           /\ \A j \in 1..i : trace[r][j].e # "setCookie"
    /\ \A i \in At(r, "setCallback") : trace[r][i].err # "ok" =>
         /\ replyCookie[r] = NoId
         /\ trace[r][i + 1] = Ev("sendDone", NoId, trace[r][i].err)
         /\ Len(trace[r]) = i + 1

C4_Witness ==
  \E r, q \in Requests :
    /\ replyCookie[r] # NoId
    /\ AtErr(q, "setCallback", "EIO") # {} /\ pc[q] = "finished"

(***************************************************************************)
(* C5 as stated: request.session is set to null only when the store.destroy *)
(* of destroySession succeeded; after an error it is still the session that *)
(* was attached before the call.                                            *)
(***************************************************************************)
C5_Original ==
  \A r \in Requests :
    session[r].kind = "null" => AtErr(r, "destroySessionDone", "ok") # {}

(***************************************************************************)
(* C5 amended: when the store.destroy of destroySession calls back, with an *)
(* error or without, that outcome is passed to the caller's completion and  *)
(* request.session is null from then on; until the callback the session     *)
(* attached before the call stays attached.                                 *)
(***************************************************************************)
C5_DestroyAlwaysClears ==
  \A r \in Requests :
    /\ Has(r, "destroySessionDone") <=> session[r].kind = "null"
    /\ \A i \in At(r, "destroySessionDone") :
         /\ trace[r][i - 1].e = "store.destroy" /\ trace[r][i - 1].err = "destroySession"
         /\ trace[r][i].id = trace[r][i - 1].id
    /\ pc[r] = "destroying" =>
         /\ session[r].kind # "null"
         /\ session[r].sessionId = AttachedId(r)

C5_Witness ==
  \E r \in Requests :
    /\ AtErr(r, "destroySessionDone", "EIO") # {}
    /\ AttachedId(r) # NoId
    /\ session[r].kind = "null"

C7_AbsentInvalidNotFound ==
  \A r \in Requests : Resolved(r) =>
    /\ (request[r].cookie = NoId \/ unsign(request[r].cookie, Secret) = UnsignFailed) =>
         /\ BrandNew(r, 1)
         /\ trace[r][2] = Ev("resolveDone", NoId, "")
         /\ At(r, "resolveDone") = {2}
         /\ \A i \in StoreCalls(r) : i > 2 /\ trace[r][i].e # "store.get"
    /\ \A i \in AtErr(r, "getCallback", "ENOENT") \cup AtErr(r, "getCallback", "absent") :
         /\ BrandNew(r, i + 1)
         /\ trace[r][i + 2] = Ev("resolveDone", NoId, "")
         /\ At(r, "resolveDone") = {i + 2}

C7_Witness ==
  \E r, q \in Requests :
    /\ Resolved(r) /\ request[r].cookie # NoId /\ unsign(request[r].cookie, Secret) = UnsignFailed
    /\ AtErr(q, "getCallback", "ENOENT") # {}
    /\ pc[r] = "handler" /\ pc[q] = "handler"

(***************************************************************************)
(* C8: when store.get calls back with an error other than not-found, the    *)
(* resolve phase completes with exactly that error; no session is created   *)
(* or attached for the request and store.destroy is not called.             *)
(***************************************************************************)
C8_GetErrorPropagates ==
  \A r \in Requests : \A i \in At(r, "getCallback") :
    trace[r][i].err \notin {"ENOENT", "absent", "expired", "live"} =>
      /\ trace[r][i + 1] = Ev("resolveDone", NoId, trace[r][i].err)
      /\ At(r, "resolveDone") = {i + 1}
      /\ ~Has(r, "newSession")
      /\ ~Has(r, "store.destroy")
      /\ session[r] = DecoratedSession
      /\ pc[r] \in {"failed", "finished"}

C8_Witness ==
  \E r \in Requests : AtErr(r, "getCallback", "EIO") # {} /\ pc[r] = "finished"

(***************************************************************************)
(* C9 as stated: a not-found (ENOENT) from the store.destroy of an expired  *)
(* session is not surfaced; a new session is attached and the resolve phase *)
(* completes without error.                                                 *)
(***************************************************************************)
C9_Original ==
  \A r \in Requests : \A i \in AtErr(r, "destroyCallback", "ENOENT") :
    /\ ~Has(r, "resolveDone") \/ At(r, "resolveDone") = AtErr(r, "resolveDone", "")
    /\ Has(r, "newSession")

(***************************************************************************)
(* C9 amended: only a not-found from store.get is mapped to a new session.  *)
(* A not-found (ENOENT) from the store.destroy of an expired session is     *)
(* surfaced like any other destroy error: the resolve phase completes with  *)
(* it and no new session is attached.                                       *)
(***************************************************************************)
C9_DestroyNotFoundSurfaces ==
  \A r \in Requests :
    /\ \A i \in AtErr(r, "destroyCallback", "ENOENT") :
         /\ trace[r][i + 1] = Ev("resolveDone", NoId, "ENOENT")
         /\ At(r, "resolveDone") = {i + 1}
         /\ ~Has(r, "newSession")
         /\ session[r] = DecoratedSession
    /\ \A i \in AtErr(r, "getCallback", "ENOENT") :
         /\ trace[r][i + 1].e = "newSession"
         /\ trace[r][i + 2] = Ev("resolveDone", NoId, "")

C9_Witness ==
  \E r, q \in Requests :
    /\ AtErr(r, "destroyCallback", "ENOENT") # {} /\ pc[r] = "finished"
    /\ AtErr(q, "getCallback", "ENOENT") # {}

(***************************************************************************)
(* C10: remove(s) for the secret s at position 0 of the store fails with an *)
(* error and leaves the store unchanged, also when s was added more than    *)
(* once.                                                                    *)
(***************************************************************************)
C10_RemoveSigningFails ==
  (ks.op = "remove" /\ ks.before[1] = ks.key) => (ks.threw /\ store = ks.before)

(***************************************************************************)
(* C11: remove(s) for a secret s that is not the signing secret completes  *)
(* without error, and afterwards contains(s) is false and s is at no        *)
(* position of the store, also when s was added more than once.             *)
(***************************************************************************)
C11_RemoveOtherClears ==
  (ks.op = "remove" /\ ks.before[1] # ks.key) =>
    /\ ~ks.threw
    /\ ~contains(store, ks.key)
    /\ \A i \in 1..Len(store) : store[i] # ks.key

(***************************************************************************)
(* C12: whatever the constructor hands back, for a single secret or an      *)
(* array of secrets, the empty array included, and whatever addSigning,     *)
(* addUnsigning and remove did since, the store is non-empty and its        *)
(* position 0 holds a string of at least 32 characters.                     *)
(***************************************************************************)
C12_OneSigningSecret ==
  ks.state \in {"store", "error"} =>
    /\ Len(store) >= 1
    /\ store[1].type = "string"
    /\ store[1].length >= MinSecretLength

(***************************************************************************)
(* C16: addSigning(k) with a string of at least 32 characters puts k at     *)
(* position 0, so that isSigning(k) holds, and shifts every other secret    *)
(* one position down, the previous signing secret to position 1;            *)
(* addUnsigning(k) puts k at position 1 and leaves position 0 and the order *)
(* of the others as they were; addSigning with anything else fails and      *)
(* leaves the store unchanged.                                              *)
(***************************************************************************)
C16_AddPlacesKey ==
  /\ (ks.op = "addSigning" /\ ks.key.type = "string" /\ ks.key.length >= MinSecretLength) =>
       /\ ~ks.threw
       /\ Len(store) = Len(ks.before) + 1
       /\ store[1] = ks.key
       /\ isSigning(store, ks.key)
       /\ \A i \in 1..Len(ks.before) : store[i + 1] = ks.before[i]
  /\ (ks.op = "addSigning" /\ (ks.key.type # "string" \/ ks.key.length < MinSecretLength)) =>
       (ks.threw /\ store = ks.before)
  /\ ks.op = "addUnsigning" =>
       /\ ~ks.threw
       /\ Len(store) = Len(ks.before) + 1
       /\ store[1] = ks.before[1]
       /\ store[2] = ks.key
       /\ \A i \in 2..Len(ks.before) : store[i + 1] = ks.before[i]

C16_Witness ==
  /\ ks.op = "addSigning" /\ ~ks.threw
  /\ Len(store) = MaxKeys
  /\ store[2] # store[1] /\ store[3] # store[2]
  /\ \E i \in 1..Len(store) : store[i].length < MinSecretLength

\* The request's url does not begin with the configured cookie path.
OutsidePath(r) ==
  /\ pc[r] # "idle"
  /\ \/ Len(request[r].url) < Len(options.path)
     \/ SubSeq(request[r].url, 1, Len(options.path)) # options.path

(***************************************************************************)
(* C14: for a request whose url does not start with the cookie path the     *)
(* resolve phase calls the store not at all and attaches no session with an *)
(* id, and the persist phase calls store.set not at all and sets no cookie; *)
(* no request has store.set called or a cookie set for a session without id.*)
(***************************************************************************)
C14_OutsidePathUntouched ==
  \A r \in Requests :
    /\ OutsidePath(r) =>
         /\ trace[r][1] = Ev("resolveDone", NoId, "")
         /\ ~Has(r, "store.get") /\ ~Has(r, "newSession")
         /\ \A i \in At(r, "store.destroy") : trace[r][i].err = "destroySession"
         /\ session[r].kind \in {"decorated", "null"}
         /\ session[r].sessionId = NoId
         /\ ~Has(r, "store.set") /\ ~Has(r, "setCookie")
         /\ replyCookie[r] = NoId
    /\ \A i \in At(r, "store.set") : trace[r][i].id # NoId
    /\ \A i \in At(r, "setCookie") : trace[r][i].id # NoId
    /\ (Has(r, "store.set") \/ replyCookie[r] # NoId) =>
         (session[r].kind = "session" /\ session[r].sessionId # NoId)

C14_Witness ==
  \E r \in Requests :
    /\ OutsidePath(r) /\ pc[r] = "finished"
    /\ Wrote(r) /\ session[r].kind = "decorated"
    /\ options.secure = "false" /\ options.saveUninitialized

(***************************************************************************)
(* C20: once destroySession has completed successfully in a request, the    *)
(* persist phase of that request calls store.set not at all and sets no     *)
(* cookie: the request does not write the destroyed session back.           *)
(***************************************************************************)
C20_DestroyedNotSaved ==
  \A r \in Requests : AtErr(r, "destroySessionDone", "ok") # {} =>
    /\ ~Has(r, "store.set")
    /\ ~Has(r, "setCookie") /\ replyCookie[r] = NoId
    /\ pc[r] = "finished" => trace[r][Len(trace[r])] = Ev("sendDone", NoId, "")

C20_Witness ==
  \E r \in Requests :
    /\ AtErr(r, "destroySessionDone", "ok") # {}
    /\ AttachedId(r) # NoId /\ Wrote(r)
    /\ options.secure = "false" /\ options.saveUninitialized
    /\ pc[r] = "finished"

\* The request's connection and headers let the secure policy save.
SavePermitted(r) ==
  options.secure # "true" \/ request[r].encrypted = "true" \/ request[r].proto = "https"

(***************************************************************************)
(* C15: for a request without cookie whose handler wrote a key to the new   *)
(* session and whose save the secure policy permits, the persist phase      *)
(* calls store.set exactly once, with the new session's raw id; the cookie  *)
(* it sets unsigns with the configured secret to that raw id, and a request *)
(* carrying that cookie has store.get called with the id store.set got.     *)
(***************************************************************************)
C15_CookieRoundTrip ==
  \A r \in Requests :
    (/\ Resolved(r) /\ request[r].cookie = NoId
     /\ pc[r] \in {"set", "finished"}
     /\ Wrote(r) /\ session[r].kind = "session"
     /\ SavePermitted(r)) =>
      /\ Cardinality(At(r, "store.set")) = 1
      /\ \A i \in At(r, "store.set") :
           /\ trace[r][i].id = AttachedId(r)
           /\ trace[r][i].id = trace[r][1].id /\ trace[r][1].e = "newSession"
           /\ trace[r][i].id[2] = ""
      /\ replyCookie[r] # NoId =>
           /\ unsign(replyCookie[r], Secret) = AttachedId(r)
           /\ \A q \in Requests : request[q].cookie = replyCookie[r] =>
                /\ pc[q] # "idle" => trace[q][1].e = "store.get"
                /\ \A j \in At(q, "store.get") : \A i \in At(r, "store.set") :
                     trace[q][j].id = trace[r][i].id

C15_Witness ==
  \E r, q \in Requests :
    /\ Resolved(r) /\ request[r].cookie = NoId /\ Wrote(r)
    /\ options.secure = "true" /\ request[r].proto = "https"
    /\ replyCookie[r] # NoId
    /\ request[q].cookie = replyCookie[r]
    /\ AtErr(q, "getCallback", "live") # {}
    /\ "user" \in session[q].data

(***************************************************************************)
(* C17: the id the resolve phase passes to store.destroy for an expired     *)
(* session is the verified raw id it passed to store.get, so that a         *)
(* successful destroy removes the expired payload from the store.           *)
(***************************************************************************)
C17_DestroyUsesRawId ==
  \A r \in Requests : \A i \in At(r, "store.destroy") :
    trace[r][i].err = "resolve" =>
      /\ trace[r][i].id = trace[r][1].id
      /\ trace[r][1].e = "store.get"
      /\ trace[r][i].id = unsign(request[r].cookie, Secret)

\* The keys of request.session that came with the session the store returned.
LoadedKeys(q) == IF AtErr(q, "getCallback", "live") # {} THEN DataKeys ELSE {}
\* The keys the handler of request q wrote.
WrittenKeys(q) == {trace[q][i].err : i \in At(q, "write")}

(***************************************************************************)
(* C18: the session object of a request is that request's alone: no key    *)
(* written by another request's handler shows on it, unless it came with    *)
(* the payload the store returned; this includes requests outside the       *)
(* cookie path, which keep the session installed at setup.                  *)
(***************************************************************************)
C18_SessionOwnedByRequest ==
  \A q \in Requests :
    (ObjectKeys(session[q]) \ InitialShape) \subseteq (WrittenKeys(q) \cup LoadedKeys(q))

(***************************************************************************)
(* C19: the resolve phase and the persist phase of a request each call      *)
(* their completion exactly once on every branch, and not while a store     *)
(* call of the phase is waiting for its callback.                           *)
(***************************************************************************)
C19_DoneExactlyOnce ==
  \A r \in Requests :
    /\ Cardinality(At(r, "resolveDone")) <= 1 /\ Cardinality(At(r, "sendDone")) <= 1
    /\ pc[r] \in {"idle", "get", "destroy"} => ~Has(r, "resolveDone")
    /\ pc[r] \in {"handler", "destroying", "failed", "set", "finished"} =>
         Cardinality(At(r, "resolveDone")) = 1
    /\ pc[r] # "finished" => ~Has(r, "sendDone")
    /\ pc[r] = "finished" =>
         /\ Cardinality(At(r, "sendDone")) = 1
         /\ trace[r][Len(trace[r])].e = "sendDone"
    \* a store call of a hook is answered before the hook completes
    /\ \A i \in At(r, "store.get") : \A j \in At(r, "resolveDone") :
         i < j /\ trace[r][i + 1].e = "getCallback"
    /\ \A i \in At(r, "store.destroy") : \A j \in At(r, "resolveDone") :
         trace[r][i].err = "resolve" => (i < j /\ trace[r][i + 1].e = "destroyCallback")
    /\ \A i \in At(r, "store.set") : \A j \in At(r, "sendDone") :
         i < j /\ trace[r][i + 1].e = "setCallback"
    \* a pending store call is the last thing the request did
    /\ pc[r] = "get" => trace[r][Len(trace[r])].e = "store.get"
    /\ pc[r] = "destroy" => trace[r][Len(trace[r])].e = "store.destroy"
    /\ pc[r] = "set" => trace[r][Len(trace[r])].e = "store.set"

C19_Witness ==
  \E r, q \in Requests :
    /\ pc[r] = "finished"
    /\ AtErr(r, "getCallback", "expired") # {} /\ AtErr(r, "destroyCallback", "ok") # {}
    /\ AtErr(r, "setCallback", "ok") # {}
    /\ pc[q] = "destroy"

(***************************************************************************)
(* C13: once addSigning(newSecret) has run, a cookie that a persist phase   *)
(* issues verifies against newSecret; and as long as the previous secret is *)
(* in the key store, a request carrying a cookie issued under it is looked  *)
(* up in the session store instead of being given a new session.            *)
(***************************************************************************)
C13_IssuedUnderSigningSecret ==
  \A r \in Requests :
    (/\ replyCookie[r] = NoId /\ replyCookie'[r] # NoId
     /\ isSigning(store, SecretKey(NewSecret))) =>
      unsign(replyCookie'[r], NewSecret) # UnsignFailed

C13_OldCookieStillResolves ==
  \A r \in Requests :
    (/\ pc[r] = "idle" /\ pc'[r] # "idle"
     /\ request'[r].cookie # NoId /\ request'[r].cookie[2] = Secret
     /\ contains(store, SecretKey(Secret))) =>
      (pc'[r] = "get" /\ ~Has(r, "newSession")')

C13_Rotation == [][C13_IssuedUnderSigningSecret /\ C13_OldCookieStillResolves]_vars

====
